---------------------------- MODULE Spec2Model ----------------------------
(***************************************************************************)
(* A model of the prometheus_reporter exporter:                            *)
(*   src/psutil_prometheus.py   the metric descriptors, the registry, the  *)
(*                              lm-sensors / NVML lifecycle, the disk      *)
(*                              request sizer and the HTTP handler;        *)
(*   src/gpu_reporter.py        the JSON GPU reporter;                     *)
(*   src/gpu_repeater/repeater.py  the round-robin relay.                  *)
(*                                                                         *)
(* Python attribute semantics are kept: an assignment `self.x = v` writes  *)
(* the INSTANCE attribute x (the class attribute of the same name is only  *)
(* the value read before the first write), while a mutation in place such  *)
(* as `self._id_handles.append(..)` changes the one object the class       *)
(* attribute names, which all instances share.                             *)
(***************************************************************************)
EXTENDS Integers, Sequences, FiniteSets, TLC

\* ------------------------------------------------------------ bounds
\* Number of enter/exit/get calls the lifecycle harness makes.
MaxCalls == 5
\* Physical GPUs that nvmlDeviceGetCount() reports.
NumDevices == 2
\* Descriptors registered at import, and requests served by one process.
MaxMetrics == 3
MaxRequests == 2
\* Calls of disk_req_size, disk requests completed, bytes of one request.
MaxPolls == 3
MaxIO == 3
MaxReqBytes == 2
\* Calls of a RunningDelta, and the largest sample (in units of 5).
MaxDeltaCalls == 4
MaxSample == 8
\* The largest leaf of a query result handed to the flattener.
MaxLeaf == 2
\* Hosts the relay is configured with, and scheduler ticks it runs.
MaxServers == 3
MaxTicks == 6

VARIABLES
    ALL_METRICS,   \* the registry: sequence of descriptors (name, kind, ...)
    inst,          \* instance attributes of the descriptor at each registry index
    id_handles,    \* GPUMeta._id_handles: the one list object of the class
    backend,       \* per backend kind: calls made to init / teardown so far
    entered,       \* per descriptor: __enter__ calls not yet matched by __exit__
    zeroReturns,   \* per backend kind: exits that left no enter outstanding
    lastOp,        \* what the last descriptor call did
    calls,         \* number of harness calls made
    pc,            \* __main__: "import", "serve" or "done" ("off": not run)
    stack,         \* the ExitStack: indices whose __exit__ is pushed
    body,          \* what the last request wrote to the response
    requests,      \* requests handled
    sizer,         \* the DiskRequestSizer object inside disk_req_size
    ioc,           \* the OS's I/O counters of each reported partition's disk
    lastPoll,      \* what the last call of disk_req_size did
    prevSeen,      \* per mountpoint: its counters when it was last sampled
    polls,         \* calls of disk_req_size made
    ios,           \* disk requests completed
    rd,            \* a RunningDelta object
    dIn,           \* the values it was called with
    dOut,          \* the values it returned
    fVal,          \* flattener: the query result (data)
    fAxes,         \* flattener: the descriptor's labels
    fFmt,          \* flattener: the descriptor's fmt
    fOut,          \* flattener: what tostr(data, name, labels, fmt=fmt) did
    SERVERS,       \* relay: the configured hosts, in order
    NEXT_SERVER,   \* relay: position of itertools.cycle(SERVERS)
    GPU_RESPONSE,  \* relay: per host, the tick of its cached response (0: none)
    pollLog        \* relay: the host each tick polled, and how the poll ended

sessVars == <<inst, id_handles, backend, entered, zeroReturns, lastOp>>
mainVars == <<pc, stack, body, requests>>
diskVars == <<sizer, ioc, lastPoll, prevSeen, polls, ios>>
deltaVars == <<rd, dIn, dOut>>
flatVars == <<fVal, fAxes, fFmt, fOut>>
relayVars == <<SERVERS, NEXT_SERVER, GPU_RESPONSE, pollLog>>
vars == <<ALL_METRICS, sessVars, calls, mainVars, diskVars, deltaVars,
          flatVars, relayVars>>

\* ------------------------------------------------------------ values
\* A query result: a number or string (a leaf), a list, a dict or a
\* namedtuple.  dicts and namedtuples keep their keys in order.
Scalar(v) == [t |-> "scalar", v |-> v, keys |-> <<>>, vals |-> <<>>]
List(items) == [t |-> "list", v |-> 0, keys |-> <<>>, vals |-> items]
Dict(ks, vs) == [t |-> "dict", v |-> 0, keys |-> ks, vals |-> vs]
NamedTuple(fs, vs) == [t |-> "namedtuple", v |-> 0, keys |-> fs, vals |-> vs]

\* The outcome of a call that may raise.
Ok(x) == [raised |-> FALSE, exc |-> "", rv |-> x]
Raise(e) == [raised |-> TRUE, exc |-> e, rv |-> <<>>]

\* fmt: the formatter of a descriptor.  "id" is the default `lambda x: x`,
\* "div100" is CPUMetric's `lambda x: x/100`.
\* A formatted value is the fraction <<numerator, denominator>>.
\* (ApplyFmt_ignored: a flattener that does not look at kwargs["fmt"].)
ApplyFmt_ignored(fmt, v) == <<v, 1>>
ApplyFmt(fmt, v) == IF fmt = "div100" THEN <<v, 100>> ELSE <<v, 1>>

\* One exposition line "name{k="v",...} value" (or "name value").
\* (DataLine_nolabels: a leaf that always takes the `"{} {}"` branch.)
DataLine_nolabels(name, parts, val) ==
    [kind |-> "DATA", name |-> name, labels |-> <<>>, text |-> val]
DataLine(name, parts, val) ==
    [kind |-> "DATA", name |-> name, labels |-> parts, text |-> val]

RECURSIVE _tostr_inner(_, _, _, _, _)
_tostr_inner(name, fmt, parts, val, axes) ==
    IF val.t \in {"list", "namedtuple", "dict"}
    THEN LET n == Len(val.vals)
             key(j) == IF val.t = "list" THEN ToString(j - 1) ELSE val.keys[j]
             loop[j \in 1..(n + 1)] ==
                 \* rv after the elements j..n, or the exception one raised
                 IF j > n THEN Ok(<<>>)
                 ELSE IF axes = <<>> THEN Raise("IndexError")   \* axes[0]
                 ELSE LET r == _tostr_inner(name, fmt,
                                    Append(parts, <<axes[1], key(j)>>),
                                    val.vals[j], Tail(axes))
                          rest == loop[j + 1]
                      IN  IF r.raised THEN r
                          ELSE IF rest.raised THEN rest
                          ELSE Ok(r.rv \o rest.rv)
         IN  loop[1]
    ELSE Ok(<<DataLine(name, parts, ApplyFmt(fmt, val.v))>>)

_tostr(data, name, labels, fmt) == _tostr_inner(name, fmt, <<>>, data, labels)

\* The flattener and the relay at rest, for the specifications of the
\* other parts of the program.
NotCalled == [raised |-> FALSE, exc |-> "not called", rv |-> <<>>]
FlattenOff ==
    /\ fVal = Scalar(0)
    /\ fAxes = <<>>
    /\ fFmt = "id"
    /\ fOut = NotCalled
RelayOff ==
    /\ SERVERS = <<>>
    /\ NEXT_SERVER = 0
    /\ GPU_RESPONSE = <<>>
    /\ pollLog = <<>>


\* ------------------------------------------------------------ descriptors
\* Metric.__init__: the attributes a descriptor is constructed with.
Metric(name, kind, labels, unit, fmt) ==
    [name |-> name, help |-> "help", kind |-> kind, labels |-> labels,
     typ |-> "gauge", unit |-> unit, fmt |-> fmt]

\* The attributes an instance reads before it has written any: the class
\* attributes of SensorMetric, of GPUMetric and (meta_init) of the GPUMeta
\* object that is the query of a GPUMetric.  A plain Metric uses none.
ClassAttrs ==
    [initAttempted |-> FALSE, initSuccess |-> "None", initCount |-> 0,
     NVMLInitAttempted |-> FALSE, NVMLInitSuccess |-> FALSE,
     meta_init |-> FALSE]

BackendKinds == {"sensors", "nvml"}
BackendOf(kind) ==
    CASE kind = "SensorMetric" -> "sensors"
      [] kind = "GPUMetric" -> "nvml"
      [] OTHER -> "none"

Indices == 1..Len(ALL_METRICS)
OfBackend(k) == {i \in Indices : BackendOf(ALL_METRICS[i].kind) = k}

RECURSIVE SumOver(_, _)
SumOver(f, S) ==
    IF S = {} THEN 0
    ELSE LET x == CHOOSE y \in S : TRUE IN f[x] + SumOver(f, S \ {x})

\* enters of descriptors of backend k that no exit has matched yet
Outstanding(e, k) == SumOver(e, OfBackend(k))

NoOp == [op |-> "none", i |-> 0, init |-> FALSE, teardown |-> FALSE,
         queried |-> FALSE, raised |-> FALSE, exc |-> "", lines |-> <<>>]

\* The session state the descriptor methods read and write, as one value s;
\* an action gives the variables the value a method returns (SetSess).
Sess ==
    [inst |-> inst, id_handles |-> id_handles, backend |-> backend,
     entered |-> entered, zeroReturns |-> zeroReturns, lastOp |-> lastOp]

SetSess(s) ==
    /\ inst' = s.inst
    /\ id_handles' = s.id_handles
    /\ backend' = s.backend
    /\ entered' = s.entered
    /\ zeroReturns' = s.zeroReturns
    /\ lastOp' = s.lastOp

\* ------------------------------------------------------------ __enter__
\* What the environment answers to sensors.init() / nvmlInit().
\* "error" for NVML is any NVMLError other than NVMLError_LibraryNotFound.
InitOutcomes(kind) ==
    CASE kind = "SensorMetric" -> {"ok", "error"}
      [] kind = "GPUMetric" -> {"ok", "notfound", "error"}
      [] OTHER -> {"ok"}

\* The call log of backend k after one more initialization attempt.
InitCalled(b, k, outcome) ==
    [b EXCEPT ![k].initCalls = @ + 1,
              ![k].initFails = IF outcome = "ok" THEN @ ELSE @ + 1]

\* (SensorMetric_enter_nocount: an enter without `self._initCount += 1`.)
SensorMetric_enter_nocount(s, i, outcome) ==
    LET a == s.inst[i]
        attempt == ~a.initAttempted
    IN  [s EXCEPT !.inst[i] =
                      IF attempt
                      THEN [a EXCEPT !.initAttempted = TRUE,
                                     !.initSuccess = IF outcome = "ok" THEN "True"
                                                     ELSE "False"]
                      ELSE a,
                  !.backend = IF attempt THEN InitCalled(@, "sensors", outcome)
                              ELSE @,
                  !.lastOp = [NoOp EXCEPT !.op = "enter", !.i = i,
                                          !.init = attempt]]

SensorMetric_enter(s, i, outcome) ==
    LET a == s.inst[i]
        attempt == ~a.initAttempted
        a1 == IF attempt
              THEN [a EXCEPT !.initAttempted = TRUE,
                             !.initSuccess = IF outcome = "ok" THEN "True"
                                             ELSE "False"]   \* bare except
              ELSE a
        a2 == IF a1.initSuccess = "True"
              THEN [a1 EXCEPT !.initCount = @ + 1]
              ELSE a1
    IN  [s EXCEPT !.inst[i] = a2,
                  !.backend = IF attempt THEN InitCalled(@, "sensors", outcome)
                              ELSE @,
                  !.lastOp = [NoOp EXCEPT !.op = "enter", !.i = i,
                                          !.init = attempt]]

GPUMetric_enter(s, i, outcome) ==
    LET a == s.inst[i]
        attempt == ~a.NVMLInitAttempted
        a1 == IF attempt
              THEN [a EXCEPT !.NVMLInitAttempted = TRUE,
                             !.NVMLInitSuccess =
                                 CASE outcome = "ok" -> TRUE
                                   [] outcome = "notfound" -> FALSE
                                   [] OTHER -> @]     \* not caught: unchanged
              ELSE a
    IN  [s EXCEPT !.inst[i] = a1,
                  !.backend = IF attempt THEN InitCalled(@, "nvml", outcome)
                              ELSE @,
                  !.lastOp = [NoOp EXCEPT !.op = "enter", !.i = i,
                                          !.init = attempt,
                                          !.raised = attempt /\ outcome = "error"]]

Metric_enter(s, i) ==
    [s EXCEPT !.lastOp = [NoOp EXCEPT !.op = "enter", !.i = i]]

\* m.__enter__() for the descriptor at index i; an enter that raised is not
\* outstanding (no __exit__ is due for it).
Enter(s, i, outcome) ==
    LET t == CASE ALL_METRICS[i].kind = "SensorMetric" -> SensorMetric_enter(s, i, outcome)
               [] ALL_METRICS[i].kind = "GPUMetric" -> GPUMetric_enter(s, i, outcome)
               [] OTHER -> Metric_enter(s, i)
    IN  [t EXCEPT !.entered[i] = IF t.lastOp.raised THEN @ ELSE @ + 1]

\* ------------------------------------------------------------ __exit__
SensorMetric_exit(s, i) ==
    LET a == s.inst[i]
        dec == a.initSuccess = "True"
        cleanup == dec /\ a.initCount - 1 = 0     \* last one out
    IN  [s EXCEPT !.inst[i].initCount = IF dec THEN @ - 1 ELSE @,
                  !.backend["sensors"].teardownCalls =
                      IF cleanup THEN @ + 1 ELSE @,
                  !.lastOp = [NoOp EXCEPT !.op = "exit", !.i = i,
                                          !.teardown = cleanup]]

GPUMetric_exit(s, i) ==
    LET shutdown == s.inst[i].NVMLInitSuccess
    IN  [s EXCEPT !.backend["nvml"].teardownCalls =
                      IF shutdown THEN @ + 1 ELSE @,
                  !.lastOp = [NoOp EXCEPT !.op = "exit", !.i = i,
                                          !.teardown = shutdown]]

Metric_exit(s, i) ==
    [s EXCEPT !.lastOp = [NoOp EXCEPT !.op = "exit", !.i = i]]

\* m.__exit__(..) for the descriptor at index i, which was entered.
Exit(s, i) ==
    LET t == CASE ALL_METRICS[i].kind = "SensorMetric" -> SensorMetric_exit(s, i)
               [] ALL_METRICS[i].kind = "GPUMetric" -> GPUMetric_exit(s, i)
               [] OTHER -> Metric_exit(s, i)
        e == [t.entered EXCEPT ![i] = @ - 1]
        k == BackendOf(ALL_METRICS[i].kind)
    IN  [t EXCEPT !.entered = e,
                  !.zeroReturns =
                      IF k \in BackendKinds /\ Outstanding(e, k) = 0
                      THEN [@ EXCEPT ![k] = @ + 1] ELSE @]

\* ------------------------------------------------------------ get
HeaderLine(kind, m, text) ==
    [kind |-> kind, name |-> m.name, labels |-> <<>>, text |-> text]

WarningLine(m) == HeaderLine("WARNING", m, "not available")

\* Metric.get: HELP, TYPE, UNIT when set, then the flattened query result.
\* q is what self.query() did: Ok(value) or Raise(e); nothing is caught here.
Metric_get(m, q) ==
    LET rv == <<HeaderLine("HELP", m, m.help), HeaderLine("TYPE", m, m.typ)>>
              \o (IF m.unit # "None"
                  THEN <<HeaderLine("UNIT", m, m.unit)>> ELSE <<>>)
    IN  IF q.raised THEN q
        ELSE LET r == _tostr(q.rv, m.name, m.labels, m.fmt)
             IN  IF r.raised THEN r ELSE Ok(rv \o r.rv)

\* The devices nvmlDeviceGetCount()/nvmlDeviceGetHandleByIndex() enumerate,
\* as (id, handle) pairs.
Discovered == [d \in 1..NumDevices |-> [id |-> d, handle |-> d]]

\* GPUMeta.__call__ on the GPUMeta object that is the query of descriptor i:
\* the first call of each object appends the devices to the class's list.
\* The comprehension then reads the unbound name `handles`: the NameError is
\* caught by the bare except and [] is returned.
GPUMeta_call(s, i) ==
    [s EXCEPT !.inst[i].meta_init = TRUE,
              !.id_handles = IF ~s.inst[i].meta_init THEN @ \o Discovered
                             ELSE @,
              !.lastOp = [NoOp EXCEPT !.lines = List(<<>>)]]

\* The record of a get that called the query and rendered r.
Rendered(i, r) ==
    [NoOp EXCEPT !.op = "get", !.i = i, !.queried = TRUE,
                 !.raised = r.raised, !.exc = r.exc, !.lines = r.rv]

Unavailable(i) ==
    [NoOp EXCEPT !.op = "get", !.i = i,
                 !.lines = <<WarningLine(ALL_METRICS[i])>>]

SensorMetric_get(s, i, q) ==
    IF s.inst[i].initSuccess = "True"
    THEN [s EXCEPT !.lastOp = Rendered(i, Metric_get(ALL_METRICS[i], q))]
    ELSE [s EXCEPT !.lastOp = Unavailable(i)]

GPUMetric_get(s, i) ==
    IF s.inst[i].NVMLInitSuccess
    THEN LET t == GPUMeta_call(s, i)
         IN  [t EXCEPT !.lastOp =
                  Rendered(i, Metric_get(ALL_METRICS[i], Ok(t.lastOp.lines)))]
    ELSE [s EXCEPT !.lastOp = Unavailable(i)]

PlainMetric_get(s, i, q) ==
    [s EXCEPT !.lastOp = Rendered(i, Metric_get(ALL_METRICS[i], q))]

\* What a query function (other than GPUMeta) may do when called.
SampleValue == Dict(<<"a">>, <<Dict(<<"b">>, <<Scalar(1)>>)>>)
QueryOutcomes == {Ok(SampleValue), Raise("RuntimeError")}

\* m.get() for the descriptor at index i.
Get(s, i, q) ==
    CASE ALL_METRICS[i].kind = "SensorMetric" -> SensorMetric_get(s, i, q)
      [] ALL_METRICS[i].kind = "GPUMetric" -> GPUMetric_get(s, i)
      [] OTHER -> PlainMetric_get(s, i, q)

\* ------------------------------------------------------------ lifecycle
\* The descriptor classes driven call by call: two descriptors of each
\* session-bound kind, any sequence of enter / exit / get in which every
\* exit matches an earlier enter of the same descriptor.
LifecycleMetrics ==
    <<Metric("coretemp", "SensorMetric", <<"chip", "feature">>, "celsius", "id"),
      Metric("fan", "SensorMetric", <<"chip", "feature">>, "rpm", "id"),
      Metric("gpu_mem", "GPUMetric", <<"id", "type">>, "percent", "id"),
      Metric("gpu_util", "GPUMetric", <<"id", "type">>, "percent", "id")>>

NoCalls == [k \in BackendKinds |->
               [initCalls |-> 0, initFails |-> 0, teardownCalls |-> 0]]

InitSession(n) ==
    /\ inst = [i \in 1..n |-> ClassAttrs]
    /\ id_handles = <<>>
    /\ backend = NoCalls
    /\ entered = [i \in 1..n |-> 0]
    /\ zeroReturns = [k \in BackendKinds |-> 0]
    /\ lastOp = NoOp

NoBody == [blocks |-> <<>>, raisedAt |-> 0, exc |-> ""]

\* __main__ is not running (the classes are driven directly).
MainOff ==
    /\ pc = "off"
    /\ stack = <<>>
    /\ body = NoBody
    /\ requests = 0

\* ------------------------------------------------------------ RunningDelta
\* RunningDelta.__init__
RunningDelta == [prev |-> 0]

\* A faulty RunningDelta.__call__: the current value is not stored.
RunningDelta_call_nostore(self, x) ==
    [self |-> self, rv |-> x - self.prev]

\* RunningDelta.__call__: the object afterwards and the value returned.
RunningDelta_call(self, x) ==
    [self |-> [self EXCEPT !.prev = x], rv |-> x - self.prev]

InitDelta ==
    /\ rd = RunningDelta
    /\ dIn = <<>>
    /\ dOut = <<>>

\* ------------------------------------------------------------ disk
\* psutil.disk_partitions(): the mountpoints, each on a disk of its own.
Partitions == <<"/", "/boot", "/home">>
Reported == {Partitions[j] : j \in 1..Len(Partitions)} \ {"/boot"}

\* DiskRequestSizer.__init__
DiskRequestSizer ==
    [rbD |-> RunningDelta, rcD |-> RunningDelta,
     wbD |-> RunningDelta, wcD |-> RunningDelta]

NoCounters ==
    [read_bytes |-> 0, read_count |-> 0, write_bytes |-> 0, write_count |-> 0]

\* DiskRequestSizer.__call__(p, disk_io_count): the object afterwards, the
\* dict returned (a ratio kept as the pair <<bytes, count>>) or the
\* ZeroDivisionError raised, and the four deltas it computed.
DiskRequestSizer_call(self, c) ==
    LET rb == RunningDelta_call(self.rbD, c.read_bytes)
        rc == RunningDelta_call(self.rcD, c.read_count)
        wb == RunningDelta_call(self.wbD, c.write_bytes)
        wc == RunningDelta_call(self.wcD, c.write_count)
        hasRead == rc.rv > 0
        hasWrite == rc.rv > 0          \* line 169 tests rc, not wc
    IN  [self |-> [rbD |-> rb.self, rcD |-> rc.self,
                   wbD |-> wb.self, wcD |-> wc.self],
         raised |-> hasWrite /\ wc.rv = 0,            \* wb/wc
         rv |-> [hasRead |-> hasRead,
                 read |-> IF hasRead THEN <<rb.rv, rc.rv>> ELSE <<0, 0>>,
                 hasWrite |-> hasWrite /\ wc.rv # 0,
                 write |-> IF hasWrite /\ wc.rv # 0 THEN <<wb.rv, wc.rv>>
                           ELSE <<0, 0>>],
         deltas |-> <<rb.rv, rc.rv, wb.rv, wc.rv>>]

\* The deltas of counters c against the counters o of an earlier sample.
DeltasSince(c, o) ==
    <<c.read_bytes - o.read_bytes, c.read_count - o.read_count,
      c.write_bytes - o.write_bytes, c.write_count - o.write_count>>

\* disk_meta(fn)._retfunc with fn the one DiskRequestSizer object, from
\* partition k on: fn is called for every partition but /boot, in the order
\* of disk_partitions(); an exception of fn ends the loop.
RECURSIVE disk_meta(_, _, _, _)
disk_meta(self, k, parts, seen) ==
    IF k > Len(Partitions)
    THEN [self |-> self, raised |-> FALSE, parts |-> parts, seen |-> seen]
    ELSE LET mp == Partitions[k]
             r == DiskRequestSizer_call(self, ioc[mp])
             part == [mountpoint |-> mp, rv |-> r.rv, deltas |-> r.deltas,
                      own |-> DeltasSince(ioc[mp], seen[mp])]
             seen1 == [seen EXCEPT ![mp] = ioc[mp]]
         IN  IF mp = "/boot" THEN disk_meta(self, k + 1, parts, seen)
             ELSE IF r.raised
             THEN [self |-> r.self, raised |-> TRUE,
                   parts |-> Append(parts, part), seen |-> seen1]
             ELSE disk_meta(r.self, k + 1, Append(parts, part), seen1)

InitDisk ==
    /\ sizer = DiskRequestSizer
    /\ ioc = [mp \in Reported \cup {"/boot"} |-> NoCounters]
    /\ lastPoll = [raised |-> FALSE, parts |-> <<>>]
    /\ prevSeen = [mp \in Reported \cup {"/boot"} |-> NoCounters]
    /\ polls = 0
    /\ ios = 0

\* The disk of a reported partition completes a read of n bytes.
DiskRead ==
    /\ ios < MaxIO
    /\ \E mp \in Reported, n \in 1..MaxReqBytes :
           ioc' = [ioc EXCEPT ![mp].read_bytes = @ + n,
                              ![mp].read_count = @ + 1]
    /\ ios' = ios + 1
    /\ UNCHANGED <<sizer, lastPoll, prevSeen, polls>>
    /\ UNCHANGED <<ALL_METRICS, sessVars, calls, mainVars, deltaVars,
                 flatVars, relayVars>>

\* The disk of a reported partition completes a write of n bytes.
DiskWrite ==
    /\ ios < MaxIO
    /\ \E mp \in Reported, n \in 1..MaxReqBytes :
           ioc' = [ioc EXCEPT ![mp].write_bytes = @ + n,
                              ![mp].write_count = @ + 1]
    /\ ios' = ios + 1
    /\ UNCHANGED <<sizer, lastPoll, prevSeen, polls>>
    /\ UNCHANGED <<ALL_METRICS, sessVars, calls, mainVars, deltaVars,
                 flatVars, relayVars>>

\* One call of disk_req_size(), the query of the metric disk_req_size.
disk_req_size ==
    /\ polls < MaxPolls
    /\ LET r == disk_meta(sizer, 1, <<>>, prevSeen)
       IN  /\ sizer' = r.self
           /\ lastPoll' = [raised |-> r.raised, parts |-> r.parts]
           /\ prevSeen' = r.seen
    /\ polls' = polls + 1
    /\ UNCHANGED <<ioc, ios>>
    /\ UNCHANGED <<ALL_METRICS, sessVars, calls, mainVars, deltaVars,
                 flatVars, relayVars>>

\* The helpers alone: no descriptor is registered, __main__ is not run.
InitHelpers ==
    /\ ALL_METRICS = <<>>
    /\ InitSession(0)
    /\ calls = 0
    /\ MainOff
    /\ InitDisk
    /\ InitDelta
    /\ FlattenOff
    /\ RelayOff

NextDisk == DiskRead \/ DiskWrite \/ disk_req_size

SpecDisk == InitHelpers /\ [][NextDisk]_vars

\* One RunningDelta object called with a sample x of a counter.
CallDelta ==
    /\ Len(dIn) < MaxDeltaCalls
    /\ \E x \in {5 * n : n \in 0..MaxSample} :
          LET r == RunningDelta_call(rd, x)
          IN  /\ rd' = r.self
              /\ dIn' = Append(dIn, x)
              /\ dOut' = Append(dOut, r.rv)
    /\ UNCHANGED <<ALL_METRICS, sessVars, calls, mainVars, diskVars,
                 flatVars, relayVars>>

NextDelta == CallDelta

SpecDelta == InitHelpers /\ [][NextDelta]_vars

InitLifecycle ==
    /\ ALL_METRICS = LifecycleMetrics
    /\ InitSession(Len(LifecycleMetrics))
    /\ calls = 0
    /\ MainOff
    /\ InitDisk
    /\ InitDelta
    /\ FlattenOff
    /\ RelayOff

CallEnter ==
    /\ calls < MaxCalls
    /\ \E i \in Indices : \E o \in InitOutcomes(ALL_METRICS[i].kind) :
           SetSess(Enter(Sess, i, o))
    /\ calls' = calls + 1
    /\ UNCHANGED <<ALL_METRICS, mainVars, diskVars, deltaVars,
                 flatVars, relayVars>>

CallExit ==
    /\ calls < MaxCalls
    /\ \E i \in Indices : entered[i] > 0 /\ SetSess(Exit(Sess, i))
    /\ calls' = calls + 1
    /\ UNCHANGED <<ALL_METRICS, mainVars, diskVars, deltaVars,
                 flatVars, relayVars>>

CallGet ==
    /\ calls < MaxCalls
    /\ \E i \in Indices : \E q \in QueryOutcomes : SetSess(Get(Sess, i, q))
    /\ calls' = calls + 1
    /\ UNCHANGED <<ALL_METRICS, mainVars, diskVars, deltaVars,
                 flatVars, relayVars>>

NextLifecycle == CallEnter \/ CallExit \/ CallGet

SpecLifecycle == InitLifecycle /\ [][NextLifecycle]_vars

\* ------------------------------------------------------------ __main__
\* Names and classes of the descriptors a module may construct and register.
MetricNames == {"load", "cpu"}
MetricKinds == {"Metric", "SensorMetric", "GPUMetric"}

\* Metric.register: ALL_METRICS.append(self).
register(registry, m) == Append(registry, m)

\* `Metric(..).register()` at import: a new descriptor object is constructed
\* and registered.
Register ==
    /\ pc = "import"
    /\ Len(ALL_METRICS) < MaxMetrics
    /\ \E name \in MetricNames, kind \in MetricKinds :
           ALL_METRICS' = register(ALL_METRICS,
                              Metric(name, kind, <<"id", "type">>, "None", "id"))
    /\ inst' = Append(inst, ClassAttrs)
    /\ entered' = Append(entered, 0)
    /\ UNCHANGED <<id_handles, backend, zeroReturns, lastOp, calls, mainVars>>
    /\ UNCHANGED <<diskVars, deltaVars,
                 flatVars, relayVars>>

\* A faulty unwinding: only the callback pushed last runs.
ExitStack_exit_top(s, st) ==
    IF st = <<>> THEN s ELSE Exit(s, st[Len(st)])

\* ExitStack.__exit__: the pushed __exit__ callbacks run last in, first out,
\* every one of them.
RECURSIVE ExitStack_exit(_, _)
ExitStack_exit(s, st) ==
    IF st = <<>> THEN s
    ELSE ExitStack_exit(Exit(s, st[Len(st)]), SubSeq(st, 1, Len(st) - 1))

\* [metric_stack.enter_context(m) for m in ALL_METRICS] from index k on, os[i]
\* being what the backend answers to an initialization in m's __enter__:
\* the session state, the stack and whether an __enter__ raised.
RECURSIVE EnterAll(_, _, _, _)
EnterAll(s, st, k, os) ==
    IF k > Len(ALL_METRICS) THEN [s |-> s, stack |-> st, raised |-> FALSE]
    ELSE LET t == Enter(s, k, os[k])
         IN  IF t.lastOp.raised
             THEN [s |-> t, stack |-> st, raised |-> TRUE]
             ELSE EnterAll(t, Append(st, k), k + 1, os)

\* The with statement up to serve_forever(): enter every registered
\* descriptor, then construct the HTTPServer (bound says whether binding the
\* port worked).  An exception on the way unwinds the ExitStack and ends the
\* process: only KeyboardInterrupt is caught outside.
Main_Start ==
    /\ pc = "import"
    /\ \E os \in [Indices -> {"ok", "notfound", "error"}], bound \in BOOLEAN :
          /\ \A i \in Indices : os[i] \in InitOutcomes(ALL_METRICS[i].kind)
          /\ LET e == EnterAll(Sess, <<>>, 1, os)
             IN  IF e.raised \/ ~bound
                 THEN /\ SetSess(ExitStack_exit(e.s, e.stack))
                      /\ stack' = <<>>
                      /\ pc' = "done"
                 ELSE /\ SetSess(e.s)
                      /\ stack' = e.stack
                      /\ pc' = "serve"
    /\ UNCHANGED <<ALL_METRICS, calls, body, requests, diskVars, deltaVars,
                 flatVars, relayVars>>

\* The loop of do_GET over `metrics` from position k on: each m.get() is
\* written to the socket as soon as it returns; an exception of m.get() leaves
\* the handler with the blocks written so far (raisedAt: the descriptor
\* whose get() raised, exc: what it raised).
RECURSIVE WriteMetrics(_, _, _, _)
WriteMetrics(s, k, qs, blocks) ==
    IF k > Len(stack)
    THEN [s |-> s, body |-> [blocks |-> blocks, raisedAt |-> 0, exc |-> ""]]
    ELSE LET t == Get(s, stack[k], qs[k])
         IN  IF t.lastOp.raised
             THEN [s |-> t, body |-> [blocks |-> blocks, raisedAt |-> stack[k],
                                      exc |-> t.lastOp.exc]]
             ELSE WriteMetrics(t, k + 1, qs,
                      Append(blocks, [i |-> stack[k], lines |-> t.lastOp.lines]))

\* StatsPrintHandler.do_GET for one request, qs[k] being what the query of
\* the k-th metric does if it is called.  The server catches what the
\* handler raises and goes on serving.
do_GET ==
    /\ pc = "serve"
    /\ requests < MaxRequests
    /\ \E qs \in [1..Len(stack) -> QueryOutcomes] :
          LET w == WriteMetrics(Sess, 1, qs, <<>>)
          IN  /\ SetSess(w.s)
              /\ body' = w.body
    /\ requests' = requests + 1
    /\ UNCHANGED <<ALL_METRICS, calls, pc, stack, diskVars, deltaVars,
                 flatVars, relayVars>>

\* serve_forever() raises (KeyboardInterrupt, or anything else): the bare
\* except closes the server, and leaving the with block exits every scope.
Main_Stop ==
    /\ pc = "serve"
    /\ SetSess(ExitStack_exit(Sess, stack))
    /\ stack' = <<>>
    /\ pc' = "done"
    /\ UNCHANGED <<ALL_METRICS, calls, body, requests, diskVars, deltaVars,
                 flatVars, relayVars>>

Init ==
    /\ ALL_METRICS = <<>>
    /\ InitSession(0)
    /\ calls = 0
    /\ pc = "import"
    /\ stack = <<>>
    /\ body = NoBody
    /\ requests = 0
    /\ InitDisk
    /\ InitDelta
    /\ FlattenOff
    /\ RelayOff

Next == Register \/ Main_Start \/ do_GET \/ Main_Stop

Spec == Init /\ [][Next]_vars

\* ------------------------------------------------------------ C1
\* C1: on a backend whose initialization succeeded, teardown is invoked
\* exactly when the number of outstanding enters returns to zero: the
\* teardown calls made so far are the exits that left no enter outstanding.
C1_TeardownExactlyAtZero ==
    \A k \in BackendKinds :
        (backend[k].initCalls >= 1 /\ backend[k].initFails = 0)
            => backend[k].teardownCalls = zeroReturns[k]

\* ------------------------------------------------------------ C2
\* C2: initialization of a backend kind is attempted at most once, whatever
\* the descriptors and the enter/exit sequence.
C2_InitAtMostOnce ==
    \A k \in BackendKinds : backend[k].initCalls <= 1

\* ------------------------------------------------------------ C3
\* C3: once an initialization of a backend has failed, every later enter
\* leaves the reference counts of that backend's descriptors unchanged, no
\* later call invokes its teardown, and a get of one of its descriptors
\* returns exactly one warning line without calling the query function.
C3_FailedIsTerminal ==
    [][\A k \in BackendKinds :
          backend[k].initFails >= 1 =>
             /\ lastOp'.op = "enter" =>
                    \A i \in OfBackend(k) : inst'[i].initCount = inst[i].initCount
             /\ backend'[k].teardownCalls = backend[k].teardownCalls
             /\ (lastOp'.op = "get" /\ lastOp'.i \in OfBackend(k)) =>
                    /\ ~lastOp'.queried
                    /\ Len(lastOp'.lines) = 1
                    /\ lastOp'.lines[1].kind = "WARNING"]_vars

\* ------------------------------------------------------------ C4
\* C4: when the query of a registered descriptor raises during a request,
\* that descriptor contributes exactly one warning line and no data line,
\* and every other registered descriptor is rendered in the same response.
C4_QueryFailureIsolated ==
    (body.raisedAt # 0 /\ body.exc = "RuntimeError") =>
        /\ \E j \in 1..Len(body.blocks) :
              /\ body.blocks[j].i = body.raisedAt
              /\ Len(body.blocks[j].lines) = 1
              /\ body.blocks[j].lines[1].kind = "WARNING"
        /\ \A i \in Indices \ {body.raisedAt} :
              \E j \in 1..Len(body.blocks) : body.blocks[j].i = i

\* ------------------------------------------------------------ C5
\* C5: on every poll and for each direction on its own, the field is emitted,
\* with the value deltaBytes / deltaCount, exactly when that direction's
\* deltaCount is positive; no poll divides by zero.
C5_RatioOnlyWhenCountPositive ==
    /\ ~lastPoll.raised
    /\ \A j \in 1..Len(lastPoll.parts) :
          LET e == lastPoll.parts[j]
          IN  /\ e.rv.hasRead <=> e.deltas[2] > 0
              /\ e.rv.hasRead => e.rv.read = <<e.deltas[1], e.deltas[2]>>
              /\ e.rv.hasWrite <=> e.deltas[4] > 0
              /\ e.rv.hasWrite => e.rv.write = <<e.deltas[3], e.deltas[4]>>

\* ------------------------------------------------------------ C6
\* C6: the deltas used for a mountpoint are its counters minus the counters
\* the same mountpoint had when it was sampled last.
C6_DeltasPerMountpoint ==
    \A j \in 1..Len(lastPoll.parts) :
        lastPoll.parts[j].deltas = lastPoll.parts[j].own

\* ------------------------------------------------------------ C7
NonDecreasing(xs) == \A j \in 1..(Len(xs) - 1) : xs[j] <= xs[j + 1]

\* C7: each call returns the current value minus the value of the call
\* before (0 before the first call) and stores the current value; for
\* non-decreasing counter samples no returned delta is negative.
C7_RunningDelta ==
    /\ Len(dOut) = Len(dIn)
    /\ \A j \in 1..Len(dIn) :
          dOut[j] = dIn[j] - (IF j = 1 THEN 0 ELSE dIn[j - 1])
    /\ rd.prev = (IF dIn = <<>> THEN 0 ELSE dIn[Len(dIn)])
    /\ NonDecreasing(dIn) => \A j \in 1..Len(dOut) : dOut[j] >= 0

\* The samples 10, 15, 15, 40 gave the deltas 10, 5, 0, 25.
C7_Witness ==
    /\ dIn = <<10, 15, 15, 40>>
    /\ dOut = <<10, 5, 0, 25>>


\* ------------------------------------------------------------ C8
\* C8: the registry never holds two descriptors with the same name.
C8_NoDuplicateNames ==
    \A i, j \in Indices :
        i # j => ALL_METRICS[i].name # ALL_METRICS[j].name

\* ------------------------------------------------------------ C9
\* C9 as stated: scopes are entered for a request and exited by its end, so
\* once a request has finished no scope is still entered.
C9_NoScopeEnteredAfterRequest ==
    (pc = "serve" /\ requests >= 1) => \A i \in Indices : entered[i] = 0

\* C9 amended: the scopes are entered once, when the process starts, stay
\* entered over all requests (also over one whose render raised), and every
\* one of them has been exited when the process has left the with block, on
\* each way out of it.
C9_ScopesExitedAtProcessEnd ==
    /\ pc = "serve" =>
          /\ stack = [i \in Indices |-> i]
          /\ \A i \in Indices : entered[i] = 1
    /\ pc = "done" =>
          /\ stack = <<>>
          /\ \A i \in Indices : entered[i] = 0

\* A process that served a request whose render raised and then shut down,
\* with two or more scopes, one of which tore its backend down.
C9_Witness ==
    /\ pc = "done"
    /\ Len(ALL_METRICS) >= 2
    /\ requests >= 1
    /\ body.raisedAt # 0
    /\ \E k \in BackendKinds : backend[k].teardownCalls >= 1

\* ------------------------------------------------------------ C10
\* C10: the cached handle list holds each device identifier exactly once as
\* soon as discovery has run, whatever the number of GPU descriptors and of
\* polls.
C10_DevicesDiscoveredOnce ==
    (\E i \in Indices : inst[i].meta_init) =>
        \A d \in 1..NumDevices :
            Cardinality({j \in 1..Len(id_handles) : id_handles[j].id = d}) = 1

\* ------------------------------------------------------------ flattener
\* The query results tostr is handed: leaves, and lists, dicts and
\* namedtuples of up to Len(FieldNames) items, nested twice.
FieldNames == <<"a", "b">>
Leaves == {Scalar(v) : v \in 1..MaxLeaf}
ItemsOf(C) == UNION {[1..n -> C] : n \in 0..Len(FieldNames)}
Nest(C) ==
    {List(vs) : vs \in ItemsOf(C)}
    \cup {Dict(SubSeq(FieldNames, 1, Len(vs)), vs) : vs \in ItemsOf(C)}
    \cup {NamedTuple(SubSeq(FieldNames, 1, Len(vs)), vs) : vs \in ItemsOf(C)}
Values == Leaves \cup Nest(Leaves \cup Nest(Leaves))
\* labels=[...] of a descriptor: none, one or two axis names.
AxisLists == {<<>>, <<"id">>, <<"id", "field">>}
Formats == {"id", "div100"}

\* A descriptor named m whose query returned fVal, before Metric.get
\* called self.tostr.
InitFlatten ==
    /\ ALL_METRICS = <<>>
    /\ InitSession(0)
    /\ calls = 0
    /\ MainOff
    /\ InitDisk
    /\ InitDelta
    /\ RelayOff
    /\ fVal \in Values
    /\ fAxes \in AxisLists
    /\ fFmt \in Formats
    /\ fOut = NotCalled

\* self.tostr(self.query(), self.name, self.labels, fmt=self.fmt)
Flatten ==
    /\ fOut = NotCalled
    /\ fOut' = _tostr(fVal, "m", fAxes, fFmt)
    /\ UNCHANGED <<ALL_METRICS, sessVars, calls, mainVars, diskVars, deltaVars,
                   fVal, fAxes, fFmt, relayVars>>

NextFlatten == Flatten

SpecFlatten == InitFlatten /\ [][NextFlatten]_vars

Flattened == fOut # NotCalled

\* ------------------------------------------------------------ C11
\* Whether a list, dict or namedtuple (empty or not) sits at depth d of v.
RECURSIVE CompositeAt(_, _)
CompositeAt(v, d) ==
    /\ v.t # "scalar"
    /\ \/ d = 0
       \/ \E j \in 1..Len(v.vals) : CompositeAt(v.vals[j], d - 1)

\* C11: when the axes are exhausted and the value is still a sequence or
\* a record, empty or not, flattening fails with an error: it never returns
\* lines, and in particular never returns silently with nothing for it.
C11_ExhaustedAxesFail ==
    (Flattened /\ CompositeAt(fVal, Len(fAxes))) => fOut.raised

\* ------------------------------------------------------------ C12
\* The leaves of v in depth-first order, each with the keys on the way to
\* it: a list contributes the zero-based index, a record the field name.
RECURSIVE LeafPaths(_)
LeafPaths(v) ==
    IF v.t = "scalar" THEN << [path |-> <<>>, leaf |-> v.v] >>
    ELSE LET k(j) == IF v.t = "list" THEN ToString(j - 1) ELSE v.keys[j]
             under(j) == LET P == LeafPaths(v.vals[j])
                         IN  [n \in 1..Len(P) |->
                                [path |-> <<k(j)>> \o P[n].path,
                                 leaf |-> P[n].leaf]]
             from[j \in 1..(Len(v.vals) + 1)] ==
                 IF j > Len(v.vals) THEN <<>> ELSE under(j) \o from[j + 1]
         IN  from[1]

\* C12: a scalar flattened with no axes gives exactly one line, without
\* labels; and whenever flattening returns lines, there is one per leaf
\* and the number of labels of each is the depth at which its leaf was
\* reached, never more than the number of axes.
C12_LabelsEqualDepth ==
    Flattened =>
        /\ (fVal.t = "scalar" /\ fAxes = <<>>) =>
              /\ ~fOut.raised
              /\ Len(fOut.rv) = 1
              /\ fOut.rv[1].labels = <<>>
        /\ ~fOut.raised =>
              LET P == LeafPaths(fVal)
              IN  /\ Len(fOut.rv) = Len(P)
                  /\ \A n \in 1..Len(P) :
                        /\ Len(fOut.rv[n].labels) = Len(P[n].path)
                        /\ Len(fOut.rv[n].labels) <= Len(fAxes)

\* A result with a leaf one level down and a leaf two levels down.
C12_Witness ==
    /\ Flattened
    /\ ~fOut.raised
    /\ \E n, m \in 1..Len(fOut.rv) :
          /\ Len(fOut.rv[n].labels) = 1
          /\ Len(fOut.rv[m].labels) = 2

\* ------------------------------------------------------------ C13
\* C13: the response of a request holds one block per registered
\* descriptor, in registration order, each descriptor exactly once.
C13_RenderedInRegistrationOrder ==
    requests >= 1 =>
        /\ Len(body.blocks) = Len(ALL_METRICS)
        /\ \A j \in 1..Len(body.blocks) : body.blocks[j].i = j

\* ------------------------------------------------------------ C14
\* The reference flattening: one line per leaf in depth-first order, the
\* i-th label pairing the i-th axis name with the index or field name at
\* depth i, the value being the formatter applied to the leaf.
Formatted(fmt, x) == <<x, IF fmt = "div100" THEN 100 ELSE 1>>
Reference(v, axes, fmt) ==
    LET P == LeafPaths(v)
    IN  [n \in 1..Len(P) |->
            [kind |-> "DATA", name |-> "m",
             labels |-> [i \in 1..Len(P[n].path) |-> <<axes[i], P[n].path[i]>>],
             text |-> Formatted(fmt, P[n].leaf)]]

\* C14: for a value whose nesting fits the axes, the flattener returns
\* exactly the reference flattening.
C14_EqualsReference ==
    (Flattened /\ ~CompositeAt(fVal, Len(fAxes))) =>
        /\ ~fOut.raised
        /\ fOut.rv = Reference(fVal, fAxes, fFmt)

\* [{"a": 1}, {"a": 2}] with the axes ["id", "field"] has been flattened to
\* m{id="0",field="a"} 1 and m{id="1",field="a"} 2.
C14_Witness ==
    /\ fVal = List(<<Dict(<<"a">>, <<Scalar(1)>>), Dict(<<"a">>, <<Scalar(2)>>)>>)
    /\ fAxes = <<"id", "field">>
    /\ fFmt = "id"
    /\ fOut = Ok(<< [kind |-> "DATA", name |-> "m",
                     labels |-> << <<"id", "0">>, <<"field", "a">> >>,
                     text |-> <<1, 1>>],
                    [kind |-> "DATA", name |-> "m",
                     labels |-> << <<"id", "1">>, <<"field", "a">> >>,
                     text |-> <<2, 1>>] >>)

\* ------------------------------------------------------------ C15
\* The reference counts of the SensorMetric descriptors.
RefCounts == [i \in Indices |-> inst[i].initCount]

\* Each successfully initialized descriptor counts its enters minus its
\* exits, and so does their sum on a backend every initialization of
\* which succeeded.
RefcountIsEntersMinusExits ==
    /\ \A i \in OfBackend("sensors") :
          /\ inst[i].initSuccess = "True" => inst[i].initCount = entered[i]
          /\ inst[i].initSuccess # "True" => inst[i].initCount = 0
    /\ (backend["sensors"].initCalls >= 1 /\ backend["sensors"].initFails = 0)
          => SumOver(RefCounts, OfBackend("sensors"))
                 = Outstanding(entered, "sensors")

C16_NoReinitAfterTeardown ==
    [][(/\ backend["sensors"].initCalls >= 1
        /\ backend["sensors"].initFails = 0
        /\ backend["sensors"].teardownCalls >= 1
        /\ Outstanding(entered, "sensors") = 0
        /\ lastOp'.op = "enter"
        /\ lastOp'.i \in OfBackend("sensors"))
          => /\ backend'["sensors"].initCalls = backend["sensors"].initCalls
             /\ inst'[lastOp'.i].initSuccess = "True"
             /\ SumOver(RefCounts', OfBackend("sensors")) = 1]_vars

\* ------------------------------------------------------------ C17
\* C17: a get of a session-bound descriptor calls the wrapped query
\* function only while an enter of its backend is outstanding; before the
\* first enter and after the last exit it does not call into the backend.
C17_QueryOnlyWhileLive ==
    (/\ lastOp.op = "get"
     /\ lastOp.queried
     /\ BackendOf(ALL_METRICS[lastOp.i].kind) \in BackendKinds)
       => Outstanding(entered, BackendOf(ALL_METRICS[lastOp.i].kind)) > 0

\* ------------------------------------------------------------ C18
\* C18: a GPU descriptor whose NVML session is initialized renders the
\* result of its query with one entry per discovered device: its data lines
\* carry exactly the discovered device identifiers, so there is at least
\* one data line when a device was discovered.
C18_OneEntryPerDevice ==
    (/\ lastOp.op = "get"
     /\ lastOp.queried
     /\ ~lastOp.raised
     /\ ALL_METRICS[lastOp.i].kind = "GPUMetric")
       => LET data == {n \in 1..Len(lastOp.lines) :
                          lastOp.lines[n].kind = "DATA"}
          IN  /\ NumDevices >= 1 => data # {}
              /\ {lastOp.lines[n].labels[1][2] : n \in data}
                    = {ToString(Discovered[d].id) : d \in 1..NumDevices}

\* ------------------------------------------------------------ relay
\* src/gpu_repeater/repeater.py.  SLACK_BOT_OTHER_SERVERS names the other
\* hosts, each once; `assert SERVERS` leaves a non-empty list.
Hosts == 1..MaxServers
Range(f) == {f[x] : x \in DOMAIN f}
ServerLists ==
    {l \in UNION {[1..n -> Hosts] : n \in 1..MaxServers} :
        \A x, y \in DOMAIN l : x # y => l[x] # l[y]}

\* What requests.get(..) of one poll does: a response with status 200, a
\* response with another status, or an exception.
PollOutcomes == {"200", "503", "ConnectionError"}

\* (cycle_restart: `next(itertools.cycle(SERVERS))` built anew on each tick.)
cycle_restart(servers, pos) == [server |-> servers[1], pos |-> pos + 1]

\* next(NEXT_SERVER) of itertools.cycle(SERVERS), pos being the number of
\* items it has yielded so far.
cycle_next(servers, pos) ==
    [server |-> servers[(pos % Len(servers)) + 1], pos |-> pos + 1]

\* update(server): the cache afterwards; only a 200 response is stored
\* (now: the time of the poll); an exception of requests.get leaves update
\* before anything is stored.
update(resp, server, r, now) ==
    IF r = "200" THEN [resp EXCEPT ![server] = now] ELSE resp

\* main() up to app.run, with GPU_RESPONSE = {k: (None, None) ..} (0 here).
InitRelay ==
    /\ ALL_METRICS = <<>>
    /\ InitSession(0)
    /\ calls = 0
    /\ MainOff
    /\ InitDisk
    /\ InitDelta
    /\ FlattenOff
    /\ SERVERS \in ServerLists
    /\ NEXT_SERVER = 0
    /\ GPU_RESPONSE = [k \in Range(SERVERS) |-> 0]
    /\ pollLog = <<>>

\* One run of the scheduler job: lambda: update(next(NEXT_SERVER)).  The
\* scheduler logs an exception of the job and runs it again at the next tick.
update_server ==
    /\ Len(pollLog) < MaxTicks
    /\ \E r \in PollOutcomes :
          LET n == cycle_next(SERVERS, NEXT_SERVER)
          IN  /\ NEXT_SERVER' = n.pos
              /\ GPU_RESPONSE' = update(GPU_RESPONSE, n.server, r,
                                        Len(pollLog) + 1)
              /\ pollLog' = Append(pollLog, [server |-> n.server, r |-> r])
    /\ UNCHANGED <<ALL_METRICS, sessVars, calls, mainVars, diskVars, deltaVars,
                   flatVars, SERVERS>>

NextRelay == update_server

SpecRelay == InitRelay /\ [][NextRelay]_vars

\* ------------------------------------------------------------ C19
\* C19: each tick polls one server, the t-th tick the server that comes
\* t-th in the cyclic order of SERVERS, whatever the earlier polls did; so
\* every window of Len(SERVERS) consecutive ticks polls every server
\* exactly once.
C19_Rotation ==
    LET n == Len(SERVERS)
    IN  /\ \A t \in 1..Len(pollLog) :
              pollLog[t].server = SERVERS[((t - 1) % n) + 1]
        /\ \A t \in 1..(Len(pollLog) - n + 1) :
              \A h \in Range(SERVERS) :
                  Cardinality({u \in t..(t + n - 1) : pollLog[u].server = h}) = 1

\* Three hosts, two full rounds, with a failed poll and a non-200 poll in
\* the first round.
C19_Witness ==
    /\ Len(SERVERS) = 3
    /\ Len(pollLog) >= 2 * Len(SERVERS)
    /\ \E t, u \in 1..Len(SERVERS) :
          pollLog[t].r = "ConnectionError" /\ pollLog[u].r = "503"

=============================================================================
